---------------------------- MODULE Spec2Model ----------------------------
(***************************************************************************)
(* Model of common_good::rfc6838 (src/media_type.hpp) and of the character *)
(* functions of common_good::ascii (src/ascii.hpp) it uses.                *)
(*                                                                         *)
(* A C++ char is its ASCII code, a std::string / std::string_view is a     *)
(* sequence of codes.  A constructor either returns a value or throws a    *)
(* parsing_error; both outcomes are the record built by Ok / Throw.        *)
(***************************************************************************)
EXTENDS Integers, Sequences, FiniteSets, TLC

(***************************************************************************)
(* Bounds of the enumerated inputs.                                        *)
(***************************************************************************)
\* longest enumerated input of media_type(string_view)
MaxInput == 5
\* longest enumerated input of a component constructor
MaxComp == 4
\* longest string of a component given to media_type(type, tree, subtype, suffix)
MaxMember == 2

(***************************************************************************)
(* src/ascii.hpp                                                           *)
(***************************************************************************)
is_digit(character) == character >= 48 /\ character <= 57

is_alphabetic_lowercase(character) == character >= 97 /\ character <= 122

is_alphabetic_uppercase(character) == character >= 65 /\ character <= 90

\* to_lowercase adding 32 to every character
to_lowercase_unconditional(character) == character + 32

to_lowercase(character) ==
    IF is_alphabetic_uppercase(character) THEN character + 32 ELSE character

is_alphabetic(character) ==
    is_alphabetic_uppercase(character) \/ is_alphabetic_lowercase(character)

is_alphanumeric(character) == is_alphabetic(character) \/ is_digit(character)

(***************************************************************************)
(* Library algorithms used by src/media_type.hpp, on sequences.           *)
(* An iterator is an index; end() is Len + 1.                              *)
(***************************************************************************)
\* std::ranges::find(string, character): first match, or end()
find(string, character) ==
    IF \E i \in DOMAIN string : string[i] = character
    THEN CHOOSE i \in DOMAIN string :
            /\ string[i] = character
            /\ \A j \in 1..(i - 1) : string[j] # character
    ELSE Len(string) + 1

\* std::begin(std::ranges::find_last(string, character)): last match, or end()
find_last(string, character) ==
    IF \E i \in DOMAIN string : string[i] = character
    THEN CHOOSE i \in DOMAIN string :
            /\ string[i] = character
            /\ \A j \in (i + 1)..Len(string) : string[j] # character
    ELSE Len(string) + 1

\* std::string_view {first, last}: the characters in [first, last)
view(string, first, last) == SubSeq(string, first, last - 1)

\* std::ranges::transform(value, value.begin(), ascii::to_lowercase)
transform_to_lowercase(value) ==
    [i \in 1..Len(value) |-> to_lowercase(value[i])]

(***************************************************************************)
(* Outcome of a constructor: a value, or a thrown parsing_error.           *)
(***************************************************************************)
Ok(v) == [ok |-> TRUE, error |-> "", value |-> v]

Throw(message) == [ok |-> FALSE, error |-> message, value |-> <<>>]

(***************************************************************************)
(* src/media_type.hpp: restricted names                                    *)
(***************************************************************************)
\* '!', '#', '$', '&', '-', '^', '_', '.', '+'
restricted_list == {33, 35, 36, 38, 45, 94, 95, 46, 43}

\* '!', '#', '$', '&', '-', '^', '_'
modified_restricted_list == {33, 35, 36, 38, 45, 94, 95}

is_restricted_name(string) ==
    \A i \in 1..Len(string) :
        is_alphanumeric(string[i]) \/ string[i] \in restricted_list

is_modified_restricted_name(string) ==
    \A i \in 1..Len(string) :
        is_alphanumeric(string[i]) \/ string[i] \in modified_restricted_list


(***************************************************************************)
(* src/media_type.hpp: the component classes.  Each operator is the        *)
(* constructor: Ok(stored value) or Throw(message of the parsing_error).   *)
(***************************************************************************)
\* longest accepted component (value.size() > 127 throws)
MaxSize == 127

\* type, without the final transform to lowercase
type_keeps_case(input) ==
    IF Len(input) = 0 \/ Len(input) > MaxSize
    THEN Throw("media type: top-level type: lenght required to be [1..127] characters")
    ELSE IF ~is_alphanumeric(Head(input))
    THEN Throw("media type: top-level type: first character required to be alphanumeric")
    ELSE IF ~is_restricted_name(input)
    THEN Throw("media type: top-level type: containing non-valid characters")
    ELSE Ok(input)

\* class type
type(input) ==
    IF Len(input) = 0 \/ Len(input) > MaxSize
    THEN Throw("media type: top-level type: lenght required to be [1..127] characters")
    ELSE IF ~is_alphanumeric(Head(input))
    THEN Throw("media type: top-level type: first character required to be alphanumeric")
    ELSE IF ~is_restricted_name(input)
    THEN Throw("media type: top-level type: containing non-valid characters")
    ELSE Ok(transform_to_lowercase(input))

\* tree, without the final transform to lowercase
tree_keeps_case(input) ==
    IF Len(input) = 0
    THEN Ok(input)
    ELSE IF Len(input) < 2 \/ Len(input) > MaxSize
    THEN Throw("media type: tree: lenght required to be [2..127] characters")
    ELSE IF ~is_alphanumeric(Head(input))
    THEN Throw("media type: tree: first character required to be alphanumeric")
    ELSE IF input[Len(input)] # 46
    THEN Throw("media type: tree: last character required to be '.'")
    ELSE IF ~is_modified_restricted_name(view(input, 1, Len(input)))
    THEN Throw("media type: tree: containing non-valid characters")
    ELSE Ok(input)

\* tree, testing the characters with is_restricted_name ('.' and '+' pass)
tree_restricted_name(input) ==
    IF Len(input) = 0
    THEN Ok(input)
    ELSE IF Len(input) < 2 \/ Len(input) > MaxSize
    THEN Throw("media type: tree: lenght required to be [2..127] characters")
    ELSE IF ~is_alphanumeric(Head(input))
    THEN Throw("media type: tree: first character required to be alphanumeric")
    ELSE IF input[Len(input)] # 46
    THEN Throw("media type: tree: last character required to be '.'")
    ELSE IF ~is_restricted_name(view(input, 1, Len(input)))
    THEN Throw("media type: tree: containing non-valid characters")
    ELSE Ok(transform_to_lowercase(input))

\* tree, testing the last character before the first
tree_last_character_first(input) ==
    IF Len(input) = 0
    THEN Ok(input)
    ELSE IF Len(input) < 2 \/ Len(input) > MaxSize
    THEN Throw("media type: tree: lenght required to be [2..127] characters")
    ELSE IF input[Len(input)] # 46
    THEN Throw("media type: tree: last character required to be '.'")
    ELSE IF ~is_alphanumeric(Head(input))
    THEN Throw("media type: tree: first character required to be alphanumeric")
    ELSE IF ~is_modified_restricted_name(view(input, 1, Len(input)))
    THEN Throw("media type: tree: containing non-valid characters")
    ELSE Ok(transform_to_lowercase(input))

\* class tree
tree(input) ==
    IF Len(input) = 0
    THEN Ok(input)
    ELSE IF Len(input) < 2 \/ Len(input) > MaxSize
    THEN Throw("media type: tree: lenght required to be [2..127] characters")
    ELSE IF ~is_alphanumeric(Head(input))
    THEN Throw("media type: tree: first character required to be alphanumeric")
    ELSE IF input[Len(input)] # 46
    THEN Throw("media type: tree: last character required to be '.'")
    ELSE IF ~is_modified_restricted_name(view(input, 1, Len(input)))
    THEN Throw("media type: tree: containing non-valid characters")
    ELSE Ok(transform_to_lowercase(input))

\* tree::standard()
standard(value) == Len(value) = 0

\* subtype, without the test of its characters
subtype_characters_unchecked(input) ==
    IF Len(input) = 0 \/ Len(input) > MaxSize
    THEN Throw("media type: subtype: lenght required to be [1..127] characters")
    ELSE IF ~is_alphanumeric(Head(input))
    THEN Throw("media type: subtype: first character required to be alphanumeric")
    ELSE Ok(transform_to_lowercase(input))

\* subtype, rejecting a string of MaxSize characters
subtype_off_by_one(input) ==
    IF Len(input) = 0 \/ Len(input) >= MaxSize
    THEN Throw("media type: subtype: lenght required to be [1..127] characters")
    ELSE IF ~is_alphanumeric(Head(input))
    THEN Throw("media type: subtype: first character required to be alphanumeric")
    ELSE IF ~is_restricted_name(input)
    THEN Throw("media type: subtype: containing non-valid characters")
    ELSE Ok(transform_to_lowercase(input))

\* class subtype
subtype(input) ==
    IF Len(input) = 0 \/ Len(input) > MaxSize
    THEN Throw("media type: subtype: lenght required to be [1..127] characters")
    ELSE IF ~is_alphanumeric(Head(input))
    THEN Throw("media type: subtype: first character required to be alphanumeric")
    ELSE IF ~is_restricted_name(input)
    THEN Throw("media type: subtype: containing non-valid characters")
    ELSE Ok(transform_to_lowercase(input))

\* suffix, without the test of the second character
suffix_second_unchecked(input) ==
    IF Len(input) < 2 \/ Len(input) > MaxSize
    THEN Throw("media type: suffix: lenght required to be [2..127] characters")
    ELSE IF Head(input) # 43
    THEN Throw("media type: suffix: first character required to be '+'")
    ELSE IF ~is_modified_restricted_name(view(input, 2, Len(input) + 1))
    THEN Throw("media type: suffix: containing non-valid characters")
    ELSE Ok(transform_to_lowercase(input))

\* class suffix
suffix(input) ==
    IF Len(input) < 2 \/ Len(input) > MaxSize
    THEN Throw("media type: suffix: lenght required to be [2..127] characters")
    ELSE IF Head(input) # 43
    THEN Throw("media type: suffix: first character required to be '+'")
    ELSE LET substring == view(input, 2, Len(input) + 1)
         IN  IF ~is_alphanumeric(Head(substring))
             THEN Throw("media type: suffix: second character required to be alphanumeric")
             ELSE IF ~is_modified_restricted_name(substring)
             THEN Throw("media type: suffix: containing non-valid characters")
             ELSE Ok(transform_to_lowercase(input))

\* parameter_name, testing the characters with is_modified_restricted_name
parameter_name_modified(input) ==
    IF Len(input) = 0 \/ Len(input) > MaxSize
    THEN Throw("media type: parameter name: lenght required to be [1..127] characters")
    ELSE IF ~is_alphanumeric(Head(input))
    THEN Throw("media type: parameter name: first character required to be alphanumeric")
    ELSE IF ~is_modified_restricted_name(input)
    THEN Throw("media type: parameter name: containing non-valid characters")
    ELSE Ok(transform_to_lowercase(input))

\* class parameter_name
parameter_name(input) ==
    IF Len(input) = 0 \/ Len(input) > MaxSize
    THEN Throw("media type: parameter name: lenght required to be [1..127] characters")
    ELSE IF ~is_alphanumeric(Head(input))
    THEN Throw("media type: parameter name: first character required to be alphanumeric")
    ELSE IF ~is_restricted_name(input)
    THEN Throw("media type: parameter name: containing non-valid characters")
    ELSE Ok(transform_to_lowercase(input))

\* parameter_value::inner_string(): {backend.begin() + 1, backend.end() - 1}
inner_string(backend) == view(backend, 2, Len(backend))

\* parameter_value, without the test for a '"' inside the quotes
parameter_value_inner_unchecked(input) ==
    IF Len(input) = 0 \/ Len(input) > MaxSize
    THEN Throw("media type: parameter value: lenght required to be [1..127] characters")
    ELSE IF Head(input) = 34
    THEN IF Len(input) = 1 \/ input[Len(input)] # 34
         THEN Throw("media type: parameter value: quoted string missing trailing '\"'")
         ELSE IF Len(input) = 2
         THEN Throw("media type: parameter value: quoted string empty")
         ELSE Ok(input)
    ELSE IF ~is_restricted_name(input)
    THEN Throw("media type: parameter value: non-quoted string containing non-valid characters")
    ELSE Ok(input)

\* class parameter_value: the stored backend is the input, unchanged
parameter_value(input) ==
    IF Len(input) = 0 \/ Len(input) > MaxSize
    THEN Throw("media type: parameter value: lenght required to be [1..127] characters")
    ELSE IF Head(input) = 34
    THEN IF Len(input) = 1 \/ input[Len(input)] # 34
         THEN Throw("media type: parameter value: quoted string missing trailing '\"'")
         ELSE IF Len(input) = 2
         THEN Throw("media type: parameter value: quoted string empty")
         ELSE IF \E i \in 1..Len(inner_string(input)) : inner_string(input)[i] = 34
         THEN Throw("media type: parameter value: quoted string containing '\"'")
         ELSE Ok(input)
    ELSE IF ~is_restricted_name(input)
    THEN Throw("media type: parameter value: non-quoted string containing non-valid characters")
    ELSE Ok(input)

\* value_view() returning the backend with its quotes
value_view_with_quotes(backend) == backend

\* parameter_value::value_view()
value_view(backend) ==
    IF Head(backend) = 34 THEN inner_string(backend) ELSE backend

\* the components' operator==: defaulted (the stored strings are equal), but
\* for parameter_value, which compares the value_view()s
component_equal(class, first, second) ==
    IF class = "parameter_value"
    THEN value_view(first) = value_view(second)
    ELSE first = second

(***************************************************************************)
(* src/media_type.hpp: class media_type                                    *)
(***************************************************************************)
\* std::optional<suffix>
nullopt == [present |-> FALSE, value |-> <<>>]

optional(value) == [present |-> TRUE, value |-> value]

\* media_type(type, tree, subtype, suffix): the four members, by value
media_type(type_, tree_, subtype_, suffix_) ==
    [type |-> type_, tree |-> tree_, subtype |-> subtype_, suffix |-> suffix_]

\* the parser keeping the parameters
without_parameters_kept(input) == input

\* the parser cutting at the last ';'
without_parameters_last(input) == view(input, 1, find_last(input, 59))

\* parser, line 394: input = {begin(input), find(input, ';')}
without_parameters(input) == view(input, 1, find(input, 59))

\* parser, the lambda initialising `type`: the candidate, the input left,
\* or the parsing_error
type_lambda(input) ==
    LET match == find(input, 47)
    IN  IF match = Len(input) + 1
        THEN [thrown |-> TRUE,
              error |-> "media type: parsing: missing delimiter '/' after type",
              result |-> <<>>, input |-> input]
        ELSE [thrown |-> FALSE, error |-> "",
              result |-> view(input, 1, match),
              input |-> view(input, match + 1, Len(input) + 1)]

\* the tree lambda cutting at the last '.'
tree_lambda_last_dot(input) ==
    LET match == find_last(input, 46)
    IN  IF match = 1
        THEN [thrown |-> TRUE,
              error |-> "media type: parsing: missing tree between '/' and '.'",
              result |-> <<>>, input |-> input]
        ELSE IF match = Len(input) + 1
        THEN [thrown |-> FALSE, error |-> "", result |-> <<>>, input |-> input]
        ELSE [thrown |-> FALSE, error |-> "",
              result |-> view(input, 1, match + 1),
              input |-> view(input, match + 1, Len(input) + 1)]

\* parser, the lambda initialising `tree`
tree_lambda(input) ==
    LET match == find(input, 46)
    IN  IF match = 1
        THEN [thrown |-> TRUE,
              error |-> "media type: parsing: missing tree between '/' and '.'",
              result |-> <<>>, input |-> input]
        ELSE IF match = Len(input) + 1
        THEN [thrown |-> FALSE, error |-> "", result |-> <<>>, input |-> input]
        ELSE [thrown |-> FALSE, error |-> "",
              result |-> view(input, 1, match + 1),
              input |-> view(input, match + 1, Len(input) + 1)]

\* the subtype lambda splitting at the first '+'
subtype_lambda_first_plus(input) ==
    LET match == find(input, 43)
    IN  [thrown |-> FALSE, error |-> "",
         result |-> view(input, 1, match),
         input |-> view(input, match, Len(input) + 1)]

\* parser, the lambda initialising `subtype`
subtype_lambda(input) ==
    LET match == find_last(input, 43)
    IN  [thrown |-> FALSE, error |-> "",
         result |-> view(input, 1, match),
         input |-> view(input, match, Len(input) + 1)]

\* parser, lines 437-439: the suffix is constructed first, then type, tree and
\* subtype in the order of the braced initialiser list
construct(type_, tree_, subtype_, input) ==
    LET s == IF Len(input) = 0 THEN Ok(nullopt) ELSE suffix(input)
    IN  IF ~s.ok THEN Throw(s.error)
        ELSE IF ~type(type_).ok THEN Throw(type(type_).error)
        ELSE IF ~tree(tree_).ok THEN Throw(tree(tree_).error)
        ELSE IF ~subtype(subtype_).ok THEN Throw(subtype(subtype_).error)
        ELSE Ok(media_type(type(type_).value, tree(tree_).value,
                           subtype(subtype_).value,
                           IF Len(input) = 0 THEN nullopt ELSE optional(s.value)))

\* the parser's local variables when it returns or throws: the step reached,
\* the candidates cut so far and `input` after each lambda
parser_locals(input) ==
    LET i0 == without_parameters(input)
        t  == type_lambda(i0)
        tr == tree_lambda(t.input)
        st == subtype_lambda(tr.input)
        none == [step |-> "type", parameters_cut |-> i0,
                 type |-> <<>>, after_type |-> <<>>,
                 tree |-> <<>>, after_tree |-> <<>>,
                 subtype |-> <<>>, after_subtype |-> <<>>]
    IN  IF t.thrown THEN none
        ELSE IF tr.thrown
        THEN [none EXCEPT !.step = "tree", !.type = t.result, !.after_type = t.input]
        ELSE [step |-> "construct", parameters_cut |-> i0,
              type |-> t.result, after_type |-> t.input,
              tree |-> tr.result, after_tree |-> tr.input,
              subtype |-> st.result, after_subtype |-> st.input]

\* media_type::parser
parser(input) ==
    LET t  == type_lambda(without_parameters(input))
        tr == tree_lambda(t.input)
        st == subtype_lambda(tr.input)
    IN  IF t.thrown THEN Throw(t.error)
        ELSE IF tr.thrown THEN Throw(tr.error)
        ELSE construct(t.result, tr.result, st.result, st.input)

\* string() leaving the suffix out
string_without_suffix(m) == m.type \o <<47>> \o m.tree \o m.subtype

\* media_type::operator std::string / media_type::string()
string(m) ==
    m.type \o <<47>> \o m.tree \o m.subtype
           \o (IF m.suffix.present THEN m.suffix.value ELSE <<>>)

\* operator== comparing type, tree and subtype only
media_type_equal_without_suffix(first, second) ==
    /\ first.type = second.type
    /\ first.tree = second.tree
    /\ first.subtype = second.subtype

\* media_type::operator== (defaulted: member by member; two optionals are
\* equal when both are empty or both hold equal values)
media_type_equal(first, second) ==
    /\ first.type = second.type
    /\ first.tree = second.tree
    /\ first.subtype = second.subtype
    /\ first.suffix.present = second.suffix.present
    /\ first.suffix.present => first.suffix.value = second.suffix.value

\* without_suffix() const& returning a copy of all four members
without_suffix_keeps_suffix(m) == m

\* media_type::without_suffix() const&: {type, tree, subtype}
without_suffix(m) == media_type(m.type, m.tree, m.subtype, nullopt)

\* a std::string after it was moved from: valid but unspecified; the
\* implementations leave it empty, the standard also allows it unchanged
moved_from(value) == {<<>>, value}

\* without_suffix() && without suffix.reset(): the moved-from optional of the
\* receiver stays engaged
without_suffix_moved_no_reset(m) ==
    { [this |-> media_type(t, tr, st,
                           IF m.suffix.present THEN optional(sf) ELSE nullopt),
       result |-> m]
        : t \in moved_from(m.type), tr \in moved_from(m.tree),
          st \in moved_from(m.subtype), sf \in moved_from(m.suffix.value) }

\* media_type::without_suffix() &&: suffix.reset(), then the media_type is
\* move-constructed from *this.  Every pair of the receiver afterwards
\* (this) and the returned value (result).
without_suffix_moved(m) ==
    { [this |-> media_type(t, tr, st, nullopt),
       result |-> media_type(m.type, m.tree, m.subtype, nullopt)]
        : t \in moved_from(m.type), tr \in moved_from(m.tree),
          st \in moved_from(m.subtype) }

\* parameter_value::string() const&
parameter_value_string(backend) == backend

\* parameter_value::value() const&
value(backend) ==
    IF Head(backend) = 34 THEN inner_string(backend) ELSE backend

(***************************************************************************)
(* src/unnamed/part_000: common_good::media_type, the encoding with the     *)
(* component classes nested in the class.                                  *)
(***************************************************************************)
\* media_type::allowed_characters
allowed_characters(string_, list) ==
    \A i \in 1..Len(string_) :
        is_alphanumeric(string_[i]) \/ string_[i] \in list

\* class media_type::media_top_type
media_top_type(input) ==
    IF Len(input) = 0 \/ Len(input) > MaxSize
    THEN Throw("media type: top-level type: lenght required to be [1..127] characters")
    ELSE IF ~is_alphanumeric(Head(input))
    THEN Throw("media type: top-level type: first character required to be alphanumeric")
    ELSE IF ~allowed_characters(input, {33, 35, 36, 38, 45, 94, 95, 46, 43})
    THEN Throw("media type: top-level type: containing non-valid characters")
    ELSE Ok(transform_to_lowercase(input))

\* class media_type::media_tree
media_tree(input) ==
    IF Len(input) = 0
    THEN Ok(input)
    ELSE IF Len(input) < 2 \/ Len(input) > MaxSize
    THEN Throw("media type: tree: lenght required to be [2..127] characters")
    ELSE IF ~is_alphanumeric(Head(input))
    THEN Throw("media type: tree: first character required to be alphanumeric")
    ELSE IF input[Len(input)] # 46
    THEN Throw("media type: tree: last character required to be '.'")
    ELSE IF ~allowed_characters(view(input, 1, Len(input)),
                                {33, 35, 36, 38, 45, 94, 95})
    THEN Throw("media type: tree: containing non-valid characters")
    ELSE Ok(transform_to_lowercase(input))

\* class media_type::media_subtype
media_subtype(input) ==
    IF Len(input) = 0 \/ Len(input) > MaxSize
    THEN Throw("media type: subtype: lenght required to be [1..127] characters")
    ELSE IF ~is_alphanumeric(Head(input))
    THEN Throw("media type: subtype: first character required to be alphanumeric")
    ELSE IF ~allowed_characters(input, {33, 35, 36, 38, 45, 94, 95, 46, 43})
    THEN Throw("media type: subtype: containing non-valid characters")
    ELSE Ok(transform_to_lowercase(input))

\* class media_type::media_suffix
media_suffix(input) ==
    IF Len(input) < 2 \/ Len(input) > MaxSize
    THEN Throw("media type: suffix: lenght required to be [2..127] characters")
    ELSE IF Head(input) # 43
    THEN Throw("media type: suffix: first character required to be '+'")
    ELSE IF ~is_alphanumeric(input[2])
    THEN Throw("media type: suffix: second character required to be alphanumeric")
    ELSE IF ~allowed_characters(view(input, 2, Len(input) + 1),
                                {33, 35, 36, 38, 45, 94, 95})
    THEN Throw("media type: suffix: containing non-valid characters")
    ELSE Ok(transform_to_lowercase(input))

\* common_good::media_type::parser: each lambda cuts its candidate and
\* constructs the component from it before the next lambda runs, so the
\* parsing_error is that of the first step that throws in the order
\* delimiter, type, tree step, tree, subtype, suffix
nested_parser(input) ==
    LET i0 == view(input, 1, find(input, 59))
        m1 == find(i0, 47)
        i1 == view(i0, m1 + 1, Len(i0) + 1)
        type_ == media_top_type(view(i0, 1, m1))
        m2 == find(i1, 46)
        tree_ == IF m2 = Len(i1) + 1 THEN media_tree(<<>>)
                 ELSE media_tree(view(i1, 1, m2 + 1))
        i2 == IF m2 = Len(i1) + 1 THEN i1 ELSE view(i1, m2 + 1, Len(i1) + 1)
        m3 == find_last(i2, 43)
        subtype_ == media_subtype(view(i2, 1, m3))
        i3 == view(i2, m3, Len(i2) + 1)
        suffix_ == IF Len(i3) = 0 THEN Ok(nullopt)
                   ELSE LET s == media_suffix(i3)
                        IN  IF s.ok THEN Ok(optional(s.value)) ELSE s
    IN  IF m1 = Len(i0) + 1
        THEN Throw("media type: parsing: missing delimiter '/' after type")
        ELSE IF ~type_.ok THEN Throw(type_.error)
        ELSE IF m2 = 1
        THEN Throw("media type: parsing: missing tree between '/' and '.'")
        ELSE IF ~tree_.ok THEN Throw(tree_.error)
        ELSE IF ~subtype_.ok THEN Throw(subtype_.error)
        ELSE IF ~suffix_.ok THEN Throw(suffix_.error)
        ELSE Ok(media_type(type_.value, tree_.value, subtype_.value,
                           suffix_.value))

(***************************************************************************)
(* The inputs: every string over a small alphabet up to a bound, the       *)
(* examples of the documentation, and strings around the length limit.     *)
(***************************************************************************)
Strings(alphabet, n) == UNION {[1..k -> alphabet] : k \in 0..n}

\* a A / . + ; - and the space
ParserAlphabet == {97, 65, 47, 46, 43, 59, 45, 32}

\* a A 1 . + - " and the space
ComponentAlphabet == {97, 65, 49, 46, 43, 45, 34, 32}

Repeat(character, n) == [i \in 1..n |-> character]

Examples ==
    { \* application/vnd.api+json
      <<97,112,112,108,105,99,97,116,105,111,110,47,118,110,100,46,97,112,105,43,106,115,111,110>>,
      \* text/plain
      <<116,101,120,116,47,112,108,97,105,110>>,
      \* application/x+y+json
      <<97,112,112,108,105,99,97,116,105,111,110,47,120,43,121,43,106,115,111,110>>,
      \* application.json
      <<97,112,112,108,105,99,97,116,105,111,110,46,106,115,111,110>>,
      \* application/.json
      <<97,112,112,108,105,99,97,116,105,111,110,47,46,106,115,111,110>>,
      \* TEXT/PLAIN
      <<84,69,88,84,47,80,76,65,73,78>>,
      \* text/
      <<116,101,120,116,47>>,
      \* Text/Vnd.A1+Xml;q=0.5/x
      <<84,101,120,116,47,86,110,100,46,65,49,43,88,109,108,59,113,61,48,46,53,47,120>>,
      \* a/b.c+d;
      <<97,47,98,46,99,43,100,59>>,
      \* image/svg+xml; charset=utf-8
      <<105,109,97,103,101,47,115,118,103,43,120,109,108,59,32,99,104,97,114,115,101,116,61,117,116,102,45,56>>,
      \* a/b++c
      <<97,47,98,43,43,99>>,
      \* a/x.y.z+w
      <<97,47,120,46,121,46,122,43,119>>,
      \* Application/VND.api+Json
      <<65,112,112,108,105,99,97,116,105,111,110,47,86,78,68,46,97,112,105,43,74,115,111,110>> }

\* components of MaxSize - 1 to MaxSize + 2 characters
LongComponents ==
    UNION { { Repeat(97, n), Repeat(65, n),
              Repeat(97, n - 1) \o <<46>>,
              <<43>> \o Repeat(97, n - 1),
              <<34>> \o Repeat(97, n - 2) \o <<34>> }
            : n \in (MaxSize - 1)..(MaxSize + 2) }

\* media types with one component around the length limit
LongInputs ==
    UNION { { Repeat(97, n) \o <<47, 97>>,
              <<97, 47>> \o Repeat(97, n),
              <<97, 47>> \o Repeat(97, n - 1) \o <<46, 97>>,
              <<97, 47, 97, 43>> \o Repeat(97, n - 1) }
            : n \in (MaxSize - 1)..(MaxSize + 1) }

\* characters no component may hold: tab, line feed, carriage return,
\* space, '"', '/', '=', '@', '\', NUL, DEL and a byte above 127 (as a
\* signed and as an unsigned char)
DisallowedCharacters == {9, 10, 13, 32, 34, 47, 61, 64, 92, 0, 127, 195, -61}

\* ab/cd.ef+gh
Template == <<97, 98, 47, 99, 100, 46, 101, 102, 43, 103, 104>>

\* the template with a disallowed character put before, between or after its
\* characters, or in the place of one
DisallowedInputs ==
    UNION { { SubSeq(Template, 1, i) \o <<c>>
                  \o SubSeq(Template, i + 1, Len(Template)),
              SubSeq(Template, 1, i) \o <<c>>
                  \o SubSeq(Template, i + 2, Len(Template)) }
            : i \in 0..Len(Template), c \in DisallowedCharacters }

ParserInputs ==
    Strings(ParserAlphabet, MaxInput) \cup Examples \cup LongInputs
        \cup DisallowedInputs

ComponentInputs == Strings(ComponentAlphabet, MaxComp) \cup LongComponents

Components ==
    {"type", "tree", "subtype", "suffix", "parameter_name", "parameter_value"}

\* the constructor of a component class
component(class, string_) ==
    CASE class = "type" -> type(string_)
      [] class = "tree" -> tree(string_)
      [] class = "subtype" -> subtype(string_)
      [] class = "suffix" -> suffix(string_)
      [] class = "parameter_name" -> parameter_name(string_)
      [] class = "parameter_value" -> parameter_value(string_)

\* a . +
MemberAlphabet == {97, 46, 43}

\* the values of the components of a class constructed from the strings
Constructed(class, strings) ==
    {component(class, s).value : s \in {x \in strings : component(class, x).ok}}

\* the validated components given to media_type(type, tree, subtype, suffix)
Types == Constructed("type", Strings(MemberAlphabet, MaxMember))

Trees == Constructed("tree", Strings(MemberAlphabet, MaxMember))

Subtypes == Constructed("subtype", Strings(MemberAlphabet, MaxMember))

Suffixes ==
    {nullopt} \cup
    {optional(v) : v \in Constructed("suffix", Strings(MemberAlphabet, MaxMember))}

\* the media types an object is compared with: a or aa, standard tree or
\* a., a or a+, no suffix or +a
Operands ==
    { media_type(t, tr, st, sf) :
        t \in {<<97>>, <<97, 97>>}, tr \in {<<>>, <<97, 46>>},
        st \in {<<97>>, <<97, 43>>}, sf \in {nullopt, optional(<<43, 97>>)} }

\* the parameter values an object is compared with: the accepted strings of
\* a, A and " up to three characters
OtherValues == Constructed("parameter_value", Strings({97, 65, 34}, 3))

(***************************************************************************)
(* The state: one object under construction and use.                       *)
(*   op       what was last done: "none", the constructor ("media_type"    *)
(*            from a string, "members" from components, or a component     *)
(*            class), or the member function called on the object          *)
(*   input    the string the constructor was given                         *)
(*   outcome  the object: the constructed value, or the thrown             *)
(*            parsing_error                                                *)
(*   locals   the parser's local variables when it returned or threw       *)
(*   text     what string() returned                                       *)
(*   before   the object as it was when the last member function was       *)
(*            called                                                       *)
(*   arg      the other operand of the last operator==                     *)
(*   ret      what the last member function other than string() returned   *)
(***************************************************************************)
VARIABLES op, input, outcome, locals, text, before, arg, ret

vars == <<op, input, outcome, locals, text, before, arg, ret>>

NoLocals ==
    [step |-> "none", parameters_cut |-> <<>>,
     type |-> <<>>, after_type |-> <<>>,
     tree |-> <<>>, after_tree |-> <<>>,
     subtype |-> <<>>, after_subtype |-> <<>>]

Init ==
    /\ op = "none"
    /\ input = <<>>
    /\ outcome = Throw("")
    /\ locals = NoLocals
    /\ text = <<>>
    /\ before = <<>>
    /\ arg = <<>>
    /\ ret = <<>>

\* media_type(std::string_view input) : media_type {parser(input)}
Construct_media_type ==
    /\ op = "none"
    /\ \E s \in ParserInputs :
        /\ input' = s
        /\ outcome' = parser(s)
        /\ locals' = parser_locals(s)
    /\ op' = "media_type"
    /\ UNCHANGED <<text, before, arg, ret>>

\* type(input), tree(input), subtype(input), suffix(input),
\* parameter_name(input), parameter_value(input)
Construct_component ==
    /\ op = "none"
    /\ \E class \in Components, s \in ComponentInputs :
        /\ op' = class
        /\ input' = s
        /\ outcome' = component(class, s)
    /\ UNCHANGED <<locals, text, before, arg, ret>>

\* media_type::string() on the constructed media_type
Call_string ==
    /\ op = "media_type"
    /\ outcome.ok
    /\ text' = string(outcome.value)
    /\ op' = "string"
    /\ before' = outcome.value
    /\ UNCHANGED <<input, outcome, locals, arg, ret>>

\* media_type(type, tree, subtype, suffix) from validated components
Construct_from_members ==
    /\ op = "none"
    /\ \E t \in Types, tr \in Trees, st \in Subtypes, sf \in Suffixes :
        outcome' = Ok(media_type(t, tr, st, sf))
    /\ op' = "members"
    /\ UNCHANGED <<input, locals, text, before, arg, ret>>

\* a media_type was constructed, from a string or from components
IsMediaType == op \in {"media_type", "members"} /\ outcome.ok

\* media_type::without_suffix() const& on the object
Call_without_suffix ==
    /\ IsMediaType
    /\ ret' = without_suffix(outcome.value)
    /\ op' = "without_suffix"
    /\ before' = outcome.value
    /\ UNCHANGED <<input, outcome, locals, text, arg>>

\* media_type::without_suffix() && on the object
Call_without_suffix_moved ==
    /\ IsMediaType
    /\ \E r \in without_suffix_moved(outcome.value) :
        /\ outcome' = [outcome EXCEPT !.value = r.this]
        /\ ret' = r.result
    /\ op' = "without_suffix_moved"
    /\ before' = outcome.value
    /\ UNCHANGED <<input, locals, text, arg>>

\* media_type::operator== of the object and another media_type
Call_equal ==
    /\ IsMediaType
    /\ \E other \in Operands :
        /\ arg' = other
        /\ ret' = media_type_equal(outcome.value, other)
    /\ op' = "equal"
    /\ before' = outcome.value
    /\ UNCHANGED <<input, outcome, locals, text>>

\* media_type {m.string()} for the object m constructed from components
Construct_from_string ==
    /\ op = "members"
    /\ ret' = parser(string(outcome.value))
    /\ op' = "reparse"
    /\ before' = outcome.value
    /\ UNCHANGED <<input, outcome, locals, text, arg>>

\* a parameter_value was constructed
IsParameterValue == op = "parameter_value" /\ outcome.ok

\* parameter_value::string() const& on the object
Call_parameter_value_string ==
    /\ IsParameterValue
    /\ ret' = parameter_value_string(outcome.value)
    /\ op' = "parameter_value_string"
    /\ before' = outcome.value
    /\ UNCHANGED <<input, outcome, locals, text, arg>>

\* parameter_value::value_view() const& on the object
Call_value_view ==
    /\ IsParameterValue
    /\ ret' = value_view(outcome.value)
    /\ op' = "value_view"
    /\ before' = outcome.value
    /\ UNCHANGED <<input, outcome, locals, text, arg>>

\* parameter_value::value() const& on the object
Call_value ==
    /\ IsParameterValue
    /\ ret' = value(outcome.value)
    /\ op' = "value"
    /\ before' = outcome.value
    /\ UNCHANGED <<input, outcome, locals, text, arg>>

\* operator== of the object and another parameter_value
Call_parameter_value_equal ==
    /\ IsParameterValue
    /\ \E other \in OtherValues :
        /\ arg' = other
        /\ ret' = component_equal("parameter_value", outcome.value, other)
    /\ op' = "parameter_value_equal"
    /\ before' = outcome.value
    /\ UNCHANGED <<input, outcome, locals, text>>

\* common_good::media_type {input}: the nested-class encoding is given the
\* string the rfc6838::media_type was constructed from
Construct_nested_media_type ==
    /\ op = "media_type"
    /\ ret' = nested_parser(input)
    /\ op' = "nested_media_type"
    /\ UNCHANGED <<input, outcome, locals, text, before, arg>>

Next ==
    \/ Construct_media_type
    \/ Construct_component
    \/ Call_string
    \/ Construct_from_members
    \/ Call_without_suffix
    \/ Call_without_suffix_moved
    \/ Call_equal
    \/ Construct_from_string
    \/ Construct_nested_media_type
    \/ Call_parameter_value_string
    \/ Call_value_view
    \/ Call_value
    \/ Call_parameter_value_equal

Spec == Init /\ [][Next]_vars

(***************************************************************************)
(* Vocabulary of the properties, stated on the strings themselves.         *)
(***************************************************************************)
Has(s, character) == \E i \in 1..Len(s) : s[i] = character

Count(s, character) == Cardinality({i \in 1..Len(s) : s[i] = character})

Uppercase == 65..90

Lowercase == 97..122

Alphanumeric == (48..57) \cup Uppercase \cup Lowercase

\* s with every ASCII uppercase letter replaced by its lowercase letter
Lowercased(s) ==
    [i \in 1..Len(s) |-> IF s[i] \in Uppercase THEN s[i] + 32 ELSE s[i]]

\* s with the case of the letter at position i changed
FlipCase(s, i) ==
    [j \in 1..Len(s) |->
        IF j # i THEN s[j]
        ELSE IF s[j] \in Uppercase THEN s[j] + 32
        ELSE IF s[j] \in Lowercase THEN s[j] - 32
        ELSE s[j]]

\* the text of s before its first ';' (all of s when it has none)
BeforeSemicolon(s) ==
    IF Has(s, 59)
    THEN SubSeq(s, 1, (CHOOSE k \in 1..Len(s) :
                          s[k] = 59 /\ \A j \in 1..(k - 1) : s[j] # 59) - 1)
    ELSE s

\* two outcomes of media_type(string_view) are the same: the same
\* parsing_error, or media types with the same four components
SameOutcome(a, b) ==
    /\ a.ok = b.ok
    /\ ~a.ok => a.error = b.error
    /\ a.ok => /\ a.value.type = b.value.type
               /\ a.value.tree = b.value.tree
               /\ a.value.subtype = b.value.subtype
               /\ a.value.suffix.present = b.value.suffix.present
               /\ a.value.suffix.present =>
                    a.value.suffix.value = b.value.suffix.value

MissingDelimiter == "media type: parsing: missing delimiter '/' after type"

MissingTree == "media type: parsing: missing tree between '/' and '.'"

SuffixErrors ==
    { "media type: suffix: lenght required to be [2..127] characters",
      "media type: suffix: first character required to be '+'",
      "media type: suffix: second character required to be alphanumeric",
      "media type: suffix: containing non-valid characters" }

(***************************************************************************)
(* C1                                                                      *)
(***************************************************************************)
\* C1: round trip.  For an accepted input without ';', string() of the
\* parsed media_type is the input with its uppercase letters lowercased.
C1_RoundTrip ==
    (op = "string" /\ ~Has(input, 59)) => text = Lowercased(input)

\* an accepted input with uppercase letters, a tree and a suffix was printed
C1_Witness ==
    /\ op = "string"
    /\ ~Has(input, 59)
    /\ input # Lowercased(input)
    /\ outcome.value.tree # <<>>
    /\ outcome.value.suffix.present

(***************************************************************************)
(* C2                                                                      *)
(***************************************************************************)
\* C2: the subtype/suffix split is at the LAST '+' of R, the text left after
\* the type, the '/' and the tree: the subtype candidate is R before it, the
\* suffix candidate is R from it to the end; with no '+' in R the subtype
\* candidate is R, the media_type has no suffix and no suffix error is raised.
\* "application/x+y+json" gives subtype "x+y" and suffix "+json".
C2_LastPlusSplit ==
    (op = "media_type" /\ locals.step = "construct") =>
        LET R == locals.after_tree
            sub == locals.subtype
            suf == locals.after_subtype
        IN  /\ sub \o suf = R
            /\ Has(R, 43) => /\ suf # <<>>
                             /\ Head(suf) = 43
                             /\ ~Has(Tail(suf), 43)
            /\ ~Has(R, 43) => /\ sub = R
                              /\ suf = <<>>
                              /\ outcome.ok => ~outcome.value.suffix.present
                              /\ outcome.error \notin SuffixErrors
            /\ input = <<97,112,112,108,105,99,97,116,105,111,110,47,120,43,121,43,106,115,111,110>>
                 => /\ outcome.ok
                    /\ outcome.value.subtype = <<120, 43, 121>>
                    /\ outcome.value.suffix = optional(<<43, 106, 115, 111, 110>>)

\* an input with two '+' after the tree was parsed into a media_type
C2_Witness ==
    /\ op = "media_type"
    /\ locals.step = "construct"
    /\ Count(locals.after_tree, 43) >= 2
    /\ outcome.ok
    /\ Has(outcome.value.subtype, 43)

(***************************************************************************)
(* C3                                                                      *)
(***************************************************************************)
\* C3: the tree step, for the remainder R after the first '/':
\* (a) the parse fails with the "missing tree" error exactly when the first
\*     character of R is '.';
\* (b) when R has no '.' at all (R empty included) the tree candidate is
\*     empty, R goes unchanged to the subtype/suffix split and no "missing
\*     tree" error is raised;
\* (c) otherwise the tree candidate is R up to and including its first '.',
\*     and that part is consumed.
C3_TreeStep ==
    (op = "media_type" /\ locals.step # "type") =>
        LET R == locals.after_type
        IN  /\ (~outcome.ok /\ outcome.error = MissingTree)
                  <=> (R # <<>> /\ Head(R) = 46)
            /\ ~Has(R, 46) => /\ locals.step = "construct"
                              /\ locals.tree = <<>>
                              /\ locals.after_tree = R
                              /\ outcome.error # MissingTree
            /\ (Has(R, 46) /\ Head(R) # 46) =>
                  /\ locals.step = "construct"
                  /\ locals.tree \o locals.after_tree = R
                  /\ locals.tree[Len(locals.tree)] = 46
                  /\ Count(locals.tree, 46) = 1

(***************************************************************************)
(* C4                                                                      *)
(***************************************************************************)
\* the parsing_error of the first invalid candidate in the order type, tree,
\* subtype, suffix
FirstInvalid(type_, tree_, subtype_, suffix_) ==
    IF ~type(type_).ok THEN type(type_).error
    ELSE IF ~tree(tree_).ok THEN tree(tree_).error
    ELSE IF ~subtype(subtype_).ok THEN subtype(subtype_).error
    ELSE IF suffix_ # <<>> /\ ~suffix(suffix_).ok THEN suffix(suffix_).error
    ELSE ""

\* C4: when several of the four candidates of an input are invalid, the
\* parsing_error the caller gets is that of the first invalid candidate in
\* the order type, tree, subtype, suffix.
C4_ValidationOrder ==
    (op = "media_type" /\ locals.step = "construct" /\ ~outcome.ok) =>
        outcome.error = FirstInvalid(locals.type, locals.tree,
                                     locals.subtype, locals.after_subtype)

(***************************************************************************)
(* C5                                                                      *)
(***************************************************************************)
\* C5: an input with no '/' before its first ';' (or none at all when it has
\* no ';') fails with the "missing delimiter '/' after type" error.
C5_MissingDelimiter ==
    (op = "media_type" /\ ~Has(BeforeSemicolon(input), 47)) =>
        (~outcome.ok /\ outcome.error = MissingDelimiter)

\* an input whose only '/' comes after a ';' was given to the parser
C5_Witness ==
    /\ op = "media_type"
    /\ ~Has(BeforeSemicolon(input), 47)
    /\ Has(input, 47)
    /\ BeforeSemicolon(input) # <<>>

(***************************************************************************)
(* C6                                                                      *)
(***************************************************************************)
\* C6: parsing p;t, p without ';', has the outcome of parsing p alone: the
\* same parsing_error, or a media_type with the same four components.
C6_ParameterTruncation ==
    (op = "media_type" /\ Has(input, 59)) =>
        SameOutcome(outcome, parser(BeforeSemicolon(input)))

\* an accepted media type followed by ';' and text holding '/' or ';'
C6_Witness ==
    /\ op = "media_type"
    /\ Count(input, 59) + Count(input, 47) >= 3
    /\ Has(input, 59)
    /\ outcome.ok

(***************************************************************************)
(* C7                                                                      *)
(***************************************************************************)
\* C7: two inputs that differ only in the case of letters both fail to
\* parse, or parse to media types that are equal under operator==.  Stated
\* for the parsed input against each input one letter's case away from it
\* and against its lowercased form; "both fail or equal" is transitive.
C7_CaseInsensitive ==
    op = "media_type" =>
        \A w \in {FlipCase(input, i) : i \in 1..Len(input)}
                    \cup {Lowercased(input)} :
            /\ parser(w).ok = outcome.ok
            /\ outcome.ok => media_type_equal(parser(w).value, outcome.value)

\* an accepted input with an uppercase and a lowercase letter
C7_Witness ==
    /\ op = "media_type"
    /\ outcome.ok
    /\ \E i \in 1..Len(input) : input[i] \in Uppercase
    /\ \E i \in 1..Len(input) : input[i] \in Lowercase

(***************************************************************************)
(* C8                                                                      *)
(***************************************************************************)
\* C8 as claimed: for each of the six component classes, when the lowercased
\* form v of an input w is valid, w is accepted and the component equals
\* (operator==) the one constructed from v.
C8_Idempotence ==
    op \in Components =>
        LET v == component(op, Lowercased(input))
        IN  v.ok => /\ outcome.ok
                    /\ component_equal(op, outcome.value, v.value)

\* C8 amended: that holds for type, tree, subtype, suffix and
\* parameter_name.  For parameter_value w is accepted as well, but the
\* component equals the one constructed from v only when w is v: the letter
\* case of a parameter value is kept.
C8_IdempotenceButValue ==
    op \in Components =>
        LET v == component(op, Lowercased(input))
        IN  v.ok => /\ outcome.ok
                    /\ op # "parameter_value" =>
                         component_equal(op, outcome.value, v.value)
                    /\ op = "parameter_value" =>
                         (component_equal(op, outcome.value, v.value)
                            <=> input = Lowercased(input))

\* a tree with an uppercase letter was constructed
C8_Witness ==
    /\ op = "tree"
    /\ outcome.ok
    /\ input # Lowercased(input)

(***************************************************************************)
(* C9                                                                      *)
(***************************************************************************)
\* '!', '#', '$', '&', '-', '^', '_'
ModifiedPunctuation == {33, 35, 36, 38, 45, 94, 95}

\* C9: tree(s) succeeds exactly when s is empty (the standard tree) or s has
\* 2 to 127 characters, begins with an alphanumeric, ends with '.', and all
\* characters but the last are alphanumeric or one of ! # $ & - ^ _ .
C9_TreeAccepts ==
    op = "tree" =>
        /\ outcome.ok <=>
             \/ input = <<>>
             \/ /\ Len(input) >= 2
                /\ Len(input) <= 127
                /\ input[1] \in Alphanumeric
                /\ input[Len(input)] = 46
                /\ \A i \in 1..(Len(input) - 1) :
                      input[i] \in Alphanumeric \cup ModifiedPunctuation
        /\ input = <<>> => (outcome.ok /\ standard(outcome.value))
        /\ (outcome.ok /\ input # <<>>) => ~standard(outcome.value)

\* a tree of 127 characters was accepted
C9_Witness ==
    /\ op = "tree"
    /\ outcome.ok
    /\ Len(input) = 127

(***************************************************************************)
(* C10                                                                     *)
(***************************************************************************)
\* C10: suffix(s) succeeds exactly when s has 2 to 127 characters, begins
\* with '+', its second character is alphanumeric and every character after
\* the '+' is alphanumeric or one of ! # $ & - ^ _ ; so "" and "+" fail and
\* an accepted suffix holds one '+' and no '.'.
C10_SuffixAccepts ==
    op = "suffix" =>
        /\ outcome.ok <=>
             /\ Len(input) >= 2
             /\ Len(input) <= 127
             /\ input[1] = 43
             /\ input[2] \in Alphanumeric
             /\ \A i \in 2..Len(input) :
                   input[i] \in Alphanumeric \cup ModifiedPunctuation
        /\ outcome.ok => (Count(input, 43) = 1 /\ ~Has(input, 46))

\* a suffix with punctuation after its second character was accepted
C10_Witness ==
    /\ op = "suffix"
    /\ outcome.ok
    /\ \E i \in 3..Len(input) : input[i] \in ModifiedPunctuation

(***************************************************************************)
(* C11                                                                     *)
(***************************************************************************)
\* '!', '#', '$', '&', '-', '^', '_', '.', '+'
Punctuation == ModifiedPunctuation \cup {46, 43}

\* the rule set of TopType: 1 to 127 characters, the first alphanumeric,
\* all alphanumeric or one of ! # $ & - ^ _ . +
TopTypeRules(s) ==
    /\ Len(s) >= 1
    /\ Len(s) <= 127
    /\ s[1] \in Alphanumeric
    /\ \A i \in 1..Len(s) : s[i] \in Alphanumeric \cup Punctuation

\* C11: type(s), subtype(s) and parameter_name(s) each succeed exactly when
\* s satisfies the TopType rule set, so the three accept the same strings
\* and store the same normalized string.
C11_SharedRuleSet ==
    op \in {"type", "subtype", "parameter_name"} =>
        /\ outcome.ok <=> TopTypeRules(input)
        /\ \A class \in {"type", "subtype", "parameter_name"} :
              /\ component(class, input).ok = outcome.ok
              /\ outcome.ok => component(class, input).value = outcome.value

\* a parameter_name with '.' and '+' was accepted
C11_Witness ==
    /\ op = "parameter_name"
    /\ outcome.ok
    /\ Has(input, 46)
    /\ Has(input, 43)

(***************************************************************************)
(* C12                                                                     *)
(***************************************************************************)
\* the rules of a component class on the characters of a non-empty s, its
\* length left aside
CharacterRules(class, s) ==
    CASE class \in {"type", "subtype", "parameter_name"} ->
            /\ s[1] \in Alphanumeric
            /\ \A i \in 1..Len(s) : s[i] \in Alphanumeric \cup Punctuation
      [] class = "tree" ->
            /\ s[1] \in Alphanumeric
            /\ s[Len(s)] = 46
            /\ \A i \in 1..(Len(s) - 1) :
                  s[i] \in Alphanumeric \cup ModifiedPunctuation
      [] class = "suffix" ->
            /\ s[1] = 43
            /\ Len(s) >= 2
            /\ s[2] \in Alphanumeric
            /\ \A i \in 2..Len(s) :
                  s[i] \in Alphanumeric \cup ModifiedPunctuation
      [] class = "parameter_value" ->
            IF s[1] = 34
            THEN /\ Len(s) >= 3
                 /\ s[Len(s)] = 34
                 /\ \A i \in 2..(Len(s) - 1) : s[i] # 34
            ELSE \A i \in 1..Len(s) : s[i] \in Alphanumeric \cup Punctuation

\* the parsing_error of a component class for a string of a wrong length
LengthError(class) ==
    CASE class = "type" ->
            "media type: top-level type: lenght required to be [1..127] characters"
      [] class = "tree" ->
            "media type: tree: lenght required to be [2..127] characters"
      [] class = "subtype" ->
            "media type: subtype: lenght required to be [1..127] characters"
      [] class = "suffix" ->
            "media type: suffix: lenght required to be [2..127] characters"
      [] class = "parameter_name" ->
            "media type: parameter name: lenght required to be [1..127] characters"
      [] class = "parameter_value" ->
            "media type: parameter value: lenght required to be [1..127] characters"

\* C12: each component class accepts a string of exactly 127 characters that
\* satisfies its character rules and rejects every string of 128 or more
\* characters with its length error; the empty string is rejected by type
\* and subtype and accepted by tree, as the standard tree.
C12_LengthBoundaries ==
    op \in Components =>
        /\ (Len(input) = 127 /\ CharacterRules(op, input)) => outcome.ok
        /\ Len(input) >= 128 =>
              (~outcome.ok /\ outcome.error = LengthError(op))
        /\ (input = <<>> /\ op \in {"type", "subtype"}) => ~outcome.ok
        /\ (input = <<>> /\ op = "tree") =>
              (outcome.ok /\ standard(outcome.value))

\* a subtype of exactly 127 characters was accepted
C12_Witness ==
    /\ op = "subtype"
    /\ Len(input) = 127
    /\ outcome.ok

(***************************************************************************)
(* C13                                                                     *)
(***************************************************************************)
\* C13: whenever type, tree, subtype, suffix or parameter_name accepts an
\* input, the stored string has the length of the input, is the input with
\* its uppercase letters lowercased and nothing else changed, and holds no
\* uppercase letter.
C13_StoredLowercased ==
    (op \in Components \ {"parameter_value"} /\ outcome.ok) =>
        /\ Len(outcome.value) = Len(input)
        /\ \A i \in 1..Len(input) :
              outcome.value[i] =
                  IF input[i] \in Uppercase THEN input[i] + 32 ELSE input[i]
        /\ \A i \in 1..Len(outcome.value) : outcome.value[i] \notin Uppercase

\* a suffix with an uppercase letter and punctuation was accepted
C13_Witness ==
    /\ op = "suffix"
    /\ outcome.ok
    /\ \E i \in 1..Len(input) : input[i] \in Uppercase
    /\ \E i \in 1..Len(input) : input[i] \in ModifiedPunctuation

(***************************************************************************)
(* C14                                                                     *)
(***************************************************************************)
\* tab, line feed, vertical tab, form feed, carriage return, space
Whitespace == {9, 10, 11, 12, 13, 32}

\* p holds a whitespace character, a second '/', a leading '/', or a
\* character that is neither alphanumeric nor one of ! # $ & - ^ _ . + /
OtherVariant(p) ==
    \/ \E i \in 1..Len(p) : p[i] \in Whitespace
    \/ Count(p, 47) >= 2
    \/ (p # <<>> /\ p[1] = 47)
    \/ \E i \in 1..Len(p) : p[i] \notin Alphanumeric \cup Punctuation \cup {47}

\* C14: an input that holds, before its first ';', a whitespace character, a
\* second '/', a leading '/' or a character outside the alphanumerics and
\* ! # $ & - ^ _ . + / is rejected with a parsing_error, wherever that
\* character stands.
C14_OtherVariantsRejected ==
    (op = "media_type" /\ OtherVariant(BeforeSemicolon(input))) => ~outcome.ok

\* a media type that parses, followed by one whitespace character, was
\* rejected
C14_Witness ==
    /\ op = "media_type"
    /\ ~outcome.ok
    /\ Len(input) >= 4
    /\ input[Len(input)] \in Whitespace
    /\ parser(SubSeq(input, 1, Len(input) - 1)).ok

(***************************************************************************)
(* C15                                                                     *)
(***************************************************************************)
\* C15: parameter_value(s) succeeds exactly when s has 1 to 127 characters
\* and is either quoted (it starts with '"', ends with another '"', and has
\* between the two at least one character and no '"') or bare (it does not
\* start with '"' and satisfies the character rule of TopType: every
\* character is alphanumeric or one of ! # $ & - ^ _ . +).
C15_ParameterValueAccepts ==
    op = "parameter_value" =>
        (outcome.ok <=>
            /\ Len(input) >= 1
            /\ Len(input) <= 127
            /\ \/ /\ input[1] = 34
                  /\ Len(input) >= 3
                  /\ input[Len(input)] = 34
                  /\ \A i \in 2..(Len(input) - 1) : input[i] # 34
               \/ /\ input[1] # 34
                  /\ \A i \in 1..Len(input) :
                        input[i] \in Alphanumeric \cup Punctuation)

\* a quoted value holding a space was accepted
C15_Witness ==
    /\ op = "parameter_value"
    /\ outcome.ok
    /\ input[1] = 34
    /\ Has(input, 32)

(***************************************************************************)
(* C16                                                                     *)
(***************************************************************************)
\* s without its enclosing quotes when it is quoted, s itself when bare
Unquoted(s) == IF s[1] = 34 THEN SubSeq(s, 2, Len(s) - 1) ELSE s

\* C16: for an accepted input s, string() returns s verbatim, value() and
\* value_view() return s without its enclosing quotes (s itself when bare),
\* and two parameter_value objects are equal exactly when their unquoted
\* values are the same string.
C16_LogicalValue ==
    /\ op = "parameter_value_string" => ret = input
    /\ op \in {"value", "value_view"} => ret = Unquoted(input)
    /\ op = "parameter_value_equal" =>
          (ret <=> Unquoted(input) = Unquoted(arg))
    /\ op \in {"parameter_value_string", "value", "value_view",
               "parameter_value_equal"} => outcome = Ok(input)

\* a bare and a quoted parameter_value compared equal
C16_Witness ==
    /\ op = "parameter_value_equal"
    /\ ret
    /\ input # arg

(***************************************************************************)
(* C17                                                                     *)
(***************************************************************************)
\* C17: for every media_type m, without_suffix() const& and
\* without_suffix() && return a value equal to media_type {m.type, m.tree,
\* m.subtype} constructed with no suffix, whose string() is type + "/" + tree
\* + subtype; applying without_suffix to the result gives the result again.
C17_SuffixStripping ==
    op \in {"without_suffix", "without_suffix_moved"} =>
        /\ media_type_equal(ret, media_type(before.type, before.tree,
                                            before.subtype, nullopt))
        /\ string(ret) = before.type \o <<47>> \o before.tree \o before.subtype
        /\ media_type_equal(without_suffix(ret), ret)
        /\ \A r \in without_suffix_moved(ret) : media_type_equal(r.result, ret)

\* without_suffix() const& was called on a media_type with a tree and a suffix
C17_Witness ==
    /\ op = "without_suffix"
    /\ before.suffix.present
    /\ before.tree # <<>>
    /\ ~ret.suffix.present

(***************************************************************************)
(* C18                                                                     *)
(***************************************************************************)
\* C18: string(), operator== and without_suffix() const& leave the media_type
\* they are called on unchanged; without_suffix() && clears the suffix of its
\* receiver, and the value it returns has the type, tree and subtype the
\* receiver had and no suffix.
C18_Frame ==
    /\ op \in {"string", "equal", "without_suffix"} => outcome.value = before
    /\ op = "without_suffix_moved" =>
          /\ ~outcome.value.suffix.present
          /\ ret.type = before.type
          /\ ret.tree = before.tree
          /\ ret.subtype = before.subtype
          /\ ~ret.suffix.present

\* without_suffix() && was called on a media_type with a suffix
C18_Witness ==
    /\ op = "without_suffix_moved"
    /\ before.suffix.present
    /\ outcome.value # before

(***************************************************************************)
(* C19                                                                     *)
(***************************************************************************)
\* the suffixes are both absent, or both present with equal strings
SameSuffix(first, second) ==
    \/ ~first.present /\ ~second.present
    \/ first.present /\ second.present /\ first.value = second.value

\* C19: two media_type values compare equal if and only if their type
\* strings, tree strings and subtype strings are equal and their suffixes are
\* both absent or both present with equal strings; a value with a suffix
\* never equals a value without one.
C19_StructuralEquality ==
    op = "equal" =>
        /\ ret <=> /\ before.type = arg.type
                   /\ before.tree = arg.tree
                   /\ before.subtype = arg.subtype
                   /\ SameSuffix(before.suffix, arg.suffix)
        /\ before.suffix.present # arg.suffix.present => ~ret

\* two media types that differ in the presence of the suffix only
C19_Witness ==
    /\ op = "equal"
    /\ ~ret
    /\ before.type = arg.type
    /\ before.tree = arg.tree
    /\ before.subtype = arg.subtype
    /\ before.suffix.present
    /\ ~arg.suffix.present

(***************************************************************************)
(* C20                                                                     *)
(***************************************************************************)
\* C20, as stated: for every media_type m built by the four-argument
\* constructor from validated components, parsing m.string() succeeds and
\* yields a media_type equal to m.
C20_StringInverse ==
    op = "reparse" => ret.ok /\ media_type_equal(ret.value, before)

\* the '.' and the '+' of m.string() are where the parser looks for them: the
\* subtype has no '.' when the tree is the standard one, and no '+' when
\* there is no suffix
Unambiguous(m) ==
    /\ standard(m.tree) => ~Has(m.subtype, 46)
    /\ ~m.suffix.present => ~Has(m.subtype, 43)

\* C20, amended: for every media_type m built by the four-argument
\* constructor from validated components, parsing m.string() succeeds and
\* yields a media_type equal to m exactly when the subtype of m contains no
\* '.' if the tree is the standard one and no '+' if there is no suffix.
C20_StringInverseUnambiguous ==
    op = "reparse" =>
        ((ret.ok /\ media_type_equal(ret.value, before)) <=> Unambiguous(before))

\* a media_type with a '.' in its subtype after a tree, and with a suffix,
\* was parsed back from its string
C20_Witness ==
    /\ op = "reparse"
    /\ ret.ok
    /\ ~standard(before.tree)
    /\ Has(before.subtype, 46)
    /\ before.suffix.present
    /\ media_type_equal(ret.value, before)

(***************************************************************************)
(* C21                                                                     *)
(***************************************************************************)
\* C21: for every input string the parser of rfc6838::media_type and the
\* parser of the nested-class media_type both fail or both succeed; when
\* both succeed the four component strings are identical, and when both fail
\* they fail with the same parsing_error message.
C21_EncodingsEquivalent ==
    op = "nested_media_type" => SameOutcome(outcome, ret)

\* C21, without the messages: the two parsers accept the same inputs and give
\* the same four component strings.
C21_SameAcceptance ==
    op = "nested_media_type" =>
        /\ outcome.ok = ret.ok
        /\ outcome.ok => SameOutcome(outcome, ret)

\* both parsers rejected an input, each with another parsing_error
C21_DifferentMessages ==
    /\ op = "nested_media_type"
    /\ ~outcome.ok
    /\ ~ret.ok
    /\ outcome.error # ret.error

(***************************************************************************)
(* C22                                                                     *)
(***************************************************************************)
\* the rules of type, subtype and parameter_name on s in their precedence,
\* each with the message of the component that names it
TopTypeRuleList(s, length, first, characters) ==
    << [message |-> length, holds |-> Len(s) >= 1 /\ Len(s) <= 127],
       [message |-> first, holds |-> Len(s) >= 1 /\ s[1] \in Alphanumeric],
       [message |-> characters,
        holds |-> \A i \in 1..Len(s) : s[i] \in Alphanumeric \cup Punctuation] >>

\* the rules of a component class on s in the precedence of the claim; the
\* empty tree is the standard tree and violates none
RuleList(class, s) ==
    CASE class = "type" ->
            TopTypeRuleList(s,
                "media type: top-level type: lenght required to be [1..127] characters",
                "media type: top-level type: first character required to be alphanumeric",
                "media type: top-level type: containing non-valid characters")
      [] class = "subtype" ->
            TopTypeRuleList(s,
                "media type: subtype: lenght required to be [1..127] characters",
                "media type: subtype: first character required to be alphanumeric",
                "media type: subtype: containing non-valid characters")
      [] class = "parameter_name" ->
            TopTypeRuleList(s,
                "media type: parameter name: lenght required to be [1..127] characters",
                "media type: parameter name: first character required to be alphanumeric",
                "media type: parameter name: containing non-valid characters")
      [] class = "tree" ->
            << [message |-> "media type: tree: lenght required to be [2..127] characters",
                holds |-> s = <<>> \/ (Len(s) >= 2 /\ Len(s) <= 127)],
               [message |-> "media type: tree: first character required to be alphanumeric",
                holds |-> s = <<>> \/ s[1] \in Alphanumeric],
               [message |-> "media type: tree: last character required to be '.'",
                holds |-> s = <<>> \/ s[Len(s)] = 46],
               [message |-> "media type: tree: containing non-valid characters",
                holds |-> \A i \in 1..(Len(s) - 1) :
                              s[i] \in Alphanumeric \cup ModifiedPunctuation] >>
      [] class = "suffix" ->
            << [message |-> "media type: suffix: lenght required to be [2..127] characters",
                holds |-> Len(s) >= 2 /\ Len(s) <= 127],
               [message |-> "media type: suffix: first character required to be '+'",
                holds |-> Len(s) >= 1 /\ s[1] = 43],
               [message |-> "media type: suffix: second character required to be alphanumeric",
                holds |-> Len(s) >= 2 /\ s[2] \in Alphanumeric],
               [message |-> "media type: suffix: containing non-valid characters",
                holds |-> \A i \in 2..Len(s) :
                              s[i] \in Alphanumeric \cup ModifiedPunctuation] >>

\* the positions in RuleList(class, s) of the rules s violates
Violated(class, s) ==
    {i \in DOMAIN RuleList(class, s) : ~RuleList(class, s)[i].holds}

\* C22: type, tree, subtype, suffix and parameter_name reject a string
\* exactly when it violates one of their rules, and the message is that of
\* the first violated rule in the precedence length, first character,
\* character set (type, subtype, parameter_name); length, first character,
\* trailing '.', character set (tree); length, leading '+', second
\* character, character set (suffix).  So the message never names a rule the
\* input satisfies.
C22_ErrorPrecedence ==
    op \in {"type", "tree", "subtype", "suffix", "parameter_name"} =>
        /\ outcome.ok <=> Violated(op, input) = {}
        /\ ~outcome.ok =>
              \E i \in Violated(op, input) :
                  /\ outcome.error = RuleList(op, input)[i].message
                  /\ \A j \in Violated(op, input) : i <= j

\* a tree whose first character, last character and character set are all
\* wrong was rejected for its first character
C22_Witness ==
    /\ op = "tree"
    /\ ~outcome.ok
    /\ Violated("tree", input) = {2, 3, 4}
    /\ outcome.error = "media type: tree: first character required to be alphanumeric"

=============================================================================
